---------------------------- MODULE Spec2Model ----------------------------
(***************************************************************************)
(* Rev-Tee dashboard (streamlit_app.py): login against users.csv, a        *)
(* filtered KPI view of revtee_data.csv, and admin-only forms that add a   *)
(* sales record, add a user and edit a user.                               *)
(*                                                                         *)
(* Streamlit executes the script from top to bottom once per user          *)
(* interaction of a browser session.  One action of this module is one     *)
(* such script run (together with the rerun that st.rerun() requests).     *)
(* The state is what outlives a run: the two CSV files, the process-wide   *)
(* st.cache_data entry of load_data, and each session's st.session_state.  *)
(***************************************************************************)
EXTENDS Integers, Sequences, FiniteSets, TLC

VARIABLES
    users_file,     \* rows of users.csv as text cells
    data_file,      \* rows of revtee_data.csv as text/number cells
    data_cache,     \* st.cache_data entry of load_data(data_file_path)
    authenticated,  \* st.session_state.authenticated, per session
    username,       \* st.session_state.username, per session
    msg,            \* last st.success / st.error / st.warning of a session
    date_range,     \* the sidebar date_input's value at the last filter run
    selected_products,  \* the sidebar multiselect's value at that run
    filtered_data,  \* filtered_data as that run computed it
    kpis            \* the indicators that run showed

display == <<date_range, selected_products, filtered_data, kpis>>

vars == <<users_file, data_file, data_cache, authenticated, username, msg,
          display>>

-----------------------------------------------------------------------------
(* Bounds and input alphabets *)

MaxUsers == 2       \* rows of users.csv the add-user form may grow it to
MaxTable == 2       \* rows of the files SpecAuth and SpecFilter start from

Sessions == {"s1", "s2"}

\* What a text_input can hold.  "NA" is one of the strings pandas reads as a
\* missing value; the names are non-numeric, so the username column keeps
\* dtype object.
Names == {"", "admin", "Admin", "NA"}
Passwords == {"", "admin", "x", "wrong"}

\* What the password fields of the add-user and edit-user forms are given.
NewPasswords == {"", "x"}

\* Python None (session_state.username after logout; the key is unset, and
\* never read, before the first login) and float NaN (a missing cell of a
\* DataFrame); neither is a str a widget can return.
None == "<None>"
NaN == "<NaN>"

-----------------------------------------------------------------------------
(* users.csv *)

\* hashlib.sha256(password.encode()).hexdigest(): a fixed function of the
\* password with no collisions among the passwords used here; the digest is
\* written by its preimage.
hash_password(password) == "sha256(" \o password \o ")"

\* pd.read_csv's default na_values: a cell with one of these texts is read as
\* NaN.
NaTexts == {"", "#N/A", "#N/A N/A", "#NA", "-1.#IND", "-1.#QNAN", "-NaN",
            "-nan", "1.#IND", "1.#QNAN", "<NA>", "N/A", "NA", "NULL", "NaN",
            "None", "n/a", "nan", "null"}

\* One cell of an object column as read_csv returns it.
ReadCell(text) == IF text \in NaTexts THEN NaN ELSE text

\* One cell as DataFrame.to_csv writes it: NaN is written as the empty text.
WriteCell(value) == IF value = NaN THEN "" ELSE value

\* pandas ==  on an object column against a str: NaN equals nothing.
CellEq(cell, value) == cell # NaN /\ value # NaN /\ cell = value

\* The table load_users synthesizes when users.csv is absent.
default_users == << [username |-> "admin", password |-> hash_password("admin")] >>

ReadUsersCsv(file) ==
    [i \in 1..Len(file) |-> [username |-> ReadCell(file[i].username),
                             password |-> ReadCell(file[i].password)]]

UsersToCsv(users) ==
    [i \in 1..Len(users) |-> [username |-> WriteCell(users[i].username),
                              password |-> WriteCell(users[i].password)]]

\* load_users(file_path) on an existing file.
load_users(file) == ReadUsersCsv(file)

\* Variants of authenticate with the row mask wrong: the password column
\* ignored, the two conditions joined by | , the username column ignored.
authenticate_any_password(u, p, users) ==
    \E i \in 1..Len(users) : CellEq(users[i].username, u)

authenticate_either(u, p, users) ==
    \E i \in 1..Len(users) :
        CellEq(users[i].username, u) \/ CellEq(users[i].password, hash_password(p))

authenticate_any_username(u, p, users) ==
    \E i \in 1..Len(users) : CellEq(users[i].password, hash_password(p))

\* users[(users['username'] == username) & (users['password'] == hashed)]
\* and "not user_row.empty".
authenticate(u, p, users) ==
    LET hashed_password == hash_password(p)
        mask(row) == CellEq(row.username, u) /\ CellEq(row.password, hashed_password)
        user_row == SelectSeq(users, mask)
    IN  Len(user_row) # 0

\* A comparison that ignores the case of the first letter.
is_admin_ignore_case(u) == u \in {"admin", "Admin"}

is_admin(u) == u = "admin"

\* Python's "not text" on a str: true of the empty string only.
Falsy_never(text) == FALSE

Falsy(text) == text = ""

-----------------------------------------------------------------------------
(* revtee_data.csv *)

\* The dates a Date cell or a date_input can hold, in calendar order; a parsed
\* date is its position here.
Calendar == << "2024-01-01", "2024-01-02" >>
Days == 1..Len(Calendar)

\* pandas NaT: what pd.to_datetime(errors='coerce') gives an unparsable cell.
NaT == 0

\* pd.to_datetime(data['Date'], errors='coerce') on one cell.
ParseDate(text) ==
    IF \E d \in Days : Calendar[d] = text
    THEN CHOOSE d \in Days : Calendar[d] = text
    ELSE NaT

\* One Date cell as to_csv writes it: NaT is written as the empty text.
FormatDate(d) == IF d = NaT THEN "" ELSE Calendar[d]

\* load_data's body: read_csv, then the Date column parsed.
ReadDataCsv(file) ==
    [i \in 1..Len(file) |->
        [Date            |-> ParseDate(file[i].Date),
         Produits_vendus |-> ReadCell(file[i].Produits_vendus),
         Ventes          |-> file[i].Ventes,
         Visiteurs       |-> file[i].Visiteurs,
         Conversions     |-> file[i].Conversions,
         Revenus         |-> file[i].Revenus]]

DataToCsv(data) ==
    [i \in 1..Len(data) |->
        [Date            |-> FormatDate(data[i].Date),
         Produits_vendus |-> WriteCell(data[i].Produits_vendus),
         Ventes          |-> data[i].Ventes,
         Visiteurs       |-> data[i].Visiteurs,
         Conversions     |-> data[i].Conversions,
         Revenus         |-> data[i].Revenus]]

\* @st.cache_data load_data(file_path): the body runs on the first call of the
\* process; every later call returns the stored value.
load_data(cache, file) == IF cache.valid THEN cache.data ELSE ReadDataCsv(file)

\* The cache entry after a call of load_data.
CacheAfterLoad(cache, file) == [valid |-> TRUE, data |-> load_data(cache, file)]

-----------------------------------------------------------------------------
(* Filters and indicators *)

\* The range with its end excluded.
InDateRange_end_excluded(d, start, end) == d # NaT /\ d >= start /\ d < end

\* (data['Date'] >= start) & (data['Date'] <= end): NaT compares False.
InDateRange(d, start, end) == d # NaT /\ d >= start /\ d <= end

\* The "Apply filters" block; selection is the multiselect's value.
ApplyFilters(data, start, end, selection) ==
    LET byDate(r) == InDateRange(r.Date, start, end)
        byDateAndProduct(r) == /\ InDateRange(r.Date, start, end)
                               /\ r.Produits_vendus \in selection
    IN  IF "All" \in selection
        THEN SelectSeq(data, byDate)
        ELSE SelectSeq(data, byDateAndProduct)

\* DataFrame column .sum()
RECURSIVE ColumnSum(_, _)
ColumnSum(rows, column) ==
    IF rows = << >> THEN 0
    ELSE Head(rows)[column] + ColumnSum(Tail(rows), column)

\* (Conversions.sum() / total_visitors) * 100 if total_visitors > 0 else 0, in
\* hundredths of a percent as the metric prints it (f"{conversion_rate:.2f}%").
ConversionRate(conversions, total_visitors) ==
    IF total_visitors > 0
    THEN (2 * 10000 * conversions + total_visitors) \div (2 * total_visitors)
    ELSE 0

\* The four metrics of one "Indicators" block.
Indicators(rows) ==
    LET total_visitors == ColumnSum(rows, "Visiteurs")
    IN  [total_sales     |-> ColumnSum(rows, "Ventes"),
         total_visitors  |-> total_visitors,
         conversion_rate |-> ConversionRate(ColumnSum(rows, "Conversions"),
                                            total_visitors),
         total_revenue   |-> ColumnSum(rows, "Revenus")]

\* The KPI section: nothing for an empty selection, one block for "All", else
\* one block per selected product.
RenderKpis(filtered, selection) ==
    LET ofProduct(product) ==
            LET isProduct(r) == r.Produits_vendus = product
            IN  SelectSeq(filtered, isProduct)
    IN  IF selection = {} THEN << >>
        ELSE IF "All" \in selection
        THEN [label \in {"All"} |-> Indicators(filtered)]
        ELSE [label \in selection |-> Indicators(ofProduct(label))]

\* data['Date'].isna().all()
NoValidDate(data) == \A i \in 1..Len(data) : data[i].Date = NaT

-----------------------------------------------------------------------------
(* Messages the script shows *)

LoginOk       == "Login successful! Redirecting to the dashboard..."
LoginErr      == "Invalid username or password. Please try again."
LogoutOk      == "You have been logged out."
NoDateErr     == "The 'Date' column contains no valid data. Check your CSV file."
NoProductWarn == "Please select at least one product to display indicators."
AddDataErr    == "Please enter the name of the new product."
AddDataOk     == "Data successfully added and CSV file updated."
AddUserErr    == "Please enter a username and password."
AddUserOk     == "New user added successfully."
EditUserErr   == "Please enter a new username and password."
EditUserOk    == "User information successfully updated."

-----------------------------------------------------------------------------
(* Form inputs *)

\* "Product Sold": an existing product or the text typed for a new one.
ProductInputs == {"", "Tee", "Cap"}

\* Values of the four number columns of a row.
Measures ==
    { [Ventes |-> 5, Visiteurs |-> 20, Conversions |-> 2, Revenus |-> 500],
      [Ventes |-> 3, Visiteurs |-> 0,  Conversions |-> 0, Revenus |-> 300] }

\* What the four number_inputs of the add-data form are given.
NewMeasures ==
    { [Ventes |-> 5, Visiteurs |-> 20, Conversions |-> 2, Revenus |-> 500] }

\* The values of the "Select Products" multiselect.
ProductSelections == SUBSET {"All", "Tee", "Cap"}

\* new_df: the one-row frame of the add-data form.
NewRecord(new_date, new_product, m) ==
    [Date            |-> new_date,
     Produits_vendus |-> new_product,
     Ventes          |-> m.Ventes,
     Visiteurs       |-> m.Visiteurs,
     Conversions     |-> m.Conversions,
     Revenus         |-> m.Revenus]

\* new_user_data: the one-row frame of the add-user form.
NewUser(new_username, new_password) ==
    [username |-> new_username, password |-> hash_password(new_password)]

\* The two .loc assignments of the edit-user form: rows named edit_username
\* are renamed, then rows named new_username_edit get the new hash.
RenameAndRehash(users, edit_username, new_username_edit, new_password_edit) ==
    LET renamed ==
            [i \in 1..Len(users) |->
                IF CellEq(users[i].username, edit_username)
                THEN [users[i] EXCEPT !.username = new_username_edit]
                ELSE users[i]]
    IN  [i \in 1..Len(users) |->
            IF CellEq(renamed[i].username, new_username_edit)
            THEN [renamed[i] EXCEPT !.password = hash_password(new_password_edit)]
            ELSE renamed[i]]

\* The options of the "Select User" selectbox: users_data['username'].
UserOptions(users) == {users[i].username : i \in 1..Len(users)}

-----------------------------------------------------------------------------
(* Script runs *)

\* The Login button on the authentication page.  A success ends in st.rerun(),
\* whose run renders the dashboard and so calls load_data.
Login(s, u, p) ==
    /\ ~authenticated[s]
    /\ LET users_data == load_users(users_file)
       IN  IF authenticate(u, p, users_data)
           THEN /\ authenticated' = [authenticated EXCEPT ![s] = TRUE]
                /\ username' = [username EXCEPT ![s] = u]
                /\ msg' = [msg EXCEPT ![s] = LoginOk]
                /\ data_cache' = CacheAfterLoad(data_cache, data_file)
           ELSE /\ msg' = [msg EXCEPT ![s] = LoginErr]
                /\ UNCHANGED <<authenticated, username, data_cache>>
    /\ UNCHANGED <<users_file, data_file, display>>

\* The Logout button on the dashboard.
Logout(s) ==
    /\ authenticated[s]
    /\ authenticated' = [authenticated EXCEPT ![s] = FALSE]
    /\ username' = [username EXCEPT ![s] = None]
    /\ msg' = [msg EXCEPT ![s] = LogoutOk]
    /\ data_cache' = CacheAfterLoad(data_cache, data_file)
    /\ UNCHANGED <<users_file, data_file, display>>

\* A dashboard run after a change of the sidebar filters.
Render(s, start, end, selection) ==
    /\ authenticated[s]
    /\ LET data == load_data(data_cache, data_file)
           filtered == ApplyFilters(data, start, end, selection)
       IN  IF NoValidDate(data)
           THEN /\ msg' = [msg EXCEPT ![s] = NoDateErr]
                /\ UNCHANGED display
           ELSE /\ msg' = [msg EXCEPT ![s] =
                              IF selection = {} THEN NoProductWarn ELSE ""]
                /\ date_range' = <<start, end>>
                /\ selected_products' = selection
                /\ filtered_data' = filtered
                /\ kpis' = RenderKpis(filtered, selection)
    /\ data_cache' = CacheAfterLoad(data_cache, data_file)
    /\ UNCHANGED <<users_file, data_file, authenticated, username>>

\* The "Add" button of add_data_form.
AddRecord(s, new_date, new_product, m) ==
    /\ authenticated[s]
    /\ is_admin(username[s])
    /\ LET data == load_data(data_cache, data_file)
           updated_data == Append(data, NewRecord(new_date, new_product, m))
       IN  IF Falsy(new_product)
           THEN /\ msg' = [msg EXCEPT ![s] = AddDataErr]
                /\ UNCHANGED data_file
           ELSE /\ data_file' = DataToCsv(updated_data)
                /\ msg' = [msg EXCEPT ![s] = AddDataOk]
    /\ data_cache' = CacheAfterLoad(data_cache, data_file)
    /\ UNCHANGED <<users_file, authenticated, username, display>>

\* The "Add User" button of add_user_form.
AddUser(s, new_username, new_password) ==
    /\ authenticated[s]
    /\ is_admin(username[s])
    /\ LET users_data == load_users(users_file)
           updated_users_data == Append(users_data, NewUser(new_username, new_password))
       IN  IF Falsy(new_username) \/ Falsy(new_password)
           THEN /\ msg' = [msg EXCEPT ![s] = AddUserErr]
                /\ UNCHANGED users_file
           ELSE /\ Len(users_data) < MaxUsers
                /\ users_file' = UsersToCsv(updated_users_data)
                /\ msg' = [msg EXCEPT ![s] = AddUserOk]
    /\ data_cache' = CacheAfterLoad(data_cache, data_file)
    /\ UNCHANGED <<data_file, authenticated, username, display>>

\* The "Edit User" button of edit_user_form.
EditUser(s, edit_username, new_username_edit, new_password_edit) ==
    /\ authenticated[s]
    /\ is_admin(username[s])
    /\ LET users_data == load_users(users_file)
       IN  /\ edit_username \in UserOptions(users_data)
           /\ IF Falsy(new_username_edit) \/ Falsy(new_password_edit)
              THEN /\ msg' = [msg EXCEPT ![s] = EditUserErr]
                   /\ UNCHANGED users_file
              ELSE /\ users_file' = UsersToCsv(RenameAndRehash(users_data,
                                        edit_username, new_username_edit,
                                        new_password_edit))
                   /\ msg' = [msg EXCEPT ![s] = EditUserOk]
    /\ data_cache' = CacheAfterLoad(data_cache, data_file)
    /\ UNCHANGED <<data_file, authenticated, username, display>>

-----------------------------------------------------------------------------
(* The application: every session starts on the authentication page, after  *)
(* the first run created users.csv with the default account.               *)

CapRow == [Date |-> "2024-01-02", Produits_vendus |-> "Cap", Ventes |-> 3,
           Visiteurs |-> 0, Conversions |-> 0, Revenus |-> 300]

\* Contents of revtee_data.csv the application is started on.
InitialDataFiles == { << CapRow >> }

NoCache == [valid |-> FALSE, data |-> << >>]

\* No filter run yet: the widgets hold their defaults and nothing is shown.
NothingShown ==
    /\ date_range = << >>
    /\ selected_products = {"All"}
    /\ filtered_data = << >>
    /\ kpis = << >>

\* The state after the first script run on a server without users.csv: the
\* module-level load_users call has written the default table, no session is
\* logged in and load_data has not been called yet.
Init ==
    /\ users_file = UsersToCsv(default_users)
    /\ data_file \in InitialDataFiles
    /\ data_cache = NoCache
    /\ authenticated = [s \in Sessions |-> FALSE]
    /\ username = [s \in Sessions |-> None]
    /\ msg = [s \in Sessions |-> ""]
    /\ NothingShown

Next ==
    \E s \in Sessions :
        \/ \E u \in Names, p \in Passwords : Login(s, u, p)
        \/ Logout(s)
        \/ \E d \in Days, product \in ProductInputs, m \in NewMeasures :
               AddRecord(s, d, product, m)
        \/ \E u \in Names, p \in NewPasswords : AddUser(s, u, p)
        \/ \E old \in UserOptions(load_users(users_file)), new \in Names,
             p \in NewPasswords :
               EditUser(s, old, new, p)

Spec == Init /\ [][Next]_vars

-----------------------------------------------------------------------------
(* authenticate on its own: users.csv holds any table of up to MaxTable    *)
(* rows, and the sessions log in and out against it.                       *)

UserFileRows ==
    [username : {"admin", "Admin", "NA", ""},
     password : {hash_password("admin"), hash_password("x")}]

UserFiles == UNION { [1..n -> UserFileRows] : n \in 1..MaxTable }

InitAuth ==
    /\ users_file \in UserFiles
    /\ data_file \in InitialDataFiles
    /\ data_cache = NoCache
    /\ authenticated = [s \in Sessions |-> FALSE]
    /\ username = [s \in Sessions |-> None]
    /\ msg = [s \in Sessions |-> ""]
    /\ NothingShown

NextAuth ==
    \E s \in Sessions :
        \/ \E u \in Names, p \in Passwords : Login(s, u, p)
        \/ Logout(s)

SpecAuth == InitAuth /\ [][NextAuth]_vars

-----------------------------------------------------------------------------
(* The filters on their own: revtee_data.csv holds any table of up to      *)
(* MaxTable rows, the admin is logged in, and the sidebar is used.         *)

DataFileRows ==
    { [Date |-> d, Produits_vendus |-> product, Ventes |-> m.Ventes,
       Visiteurs |-> m.Visiteurs, Conversions |-> m.Conversions,
       Revenus |-> m.Revenus] :
      d \in {"2024-01-01", "2024-01-02", "n/d"}, product \in {"Tee", "Cap"},
      m \in Measures }

DataFiles == UNION { [1..n -> DataFileRows] : n \in 0..MaxTable }

InitFilter ==
    /\ users_file = UsersToCsv(default_users)
    /\ data_file \in DataFiles
    /\ data_cache = CacheAfterLoad(NoCache, data_file)
    /\ authenticated = [s \in Sessions |-> s = "s1"]
    /\ username = [s \in Sessions |-> IF s = "s1" THEN "admin" ELSE None]
    /\ msg = [s \in Sessions |-> IF s = "s1" THEN LoginOk ELSE ""]
    /\ NothingShown

NextFilter ==
    \E s \in Sessions, start \in Days, end \in Days :
        \E selection \in ProductSelections :
            start <= end /\ Render(s, start, end, selection)

SpecFilter == InitFilter /\ [][NextFilter]_vars

-----------------------------------------------------------------------------
(* Vocabulary of the properties *)

\* Table T holds a record with exactly this username and the hash of p.
HasRecord(T, u, p) ==
    \E i \in 1..Len(T) : T[i].username = u /\ T[i].password = hash_password(p)

\* Table T holds a record with exactly this username.
HasUser(T, u) == \E i \in 1..Len(T) : T[i].username = u

\* The user table a script run starting in this state works on.
UsersNow == load_users(users_file)

\* Session s is logged in and its dashboard shows the admin forms.
AdminAvailable(s) == authenticated[s] /\ is_admin(username[s])

\* A step of session s through one of the three admin forms.
AdminFormStep(s) ==
    \/ \E d \in Days, product \in ProductInputs, m \in NewMeasures :
           AddRecord(s, d, product, m)
    \/ \E u \in Names, p \in NewPasswords : AddUser(s, u, p)
    \/ \E old \in UserOptions(load_users(users_file)), new \in Names,
             p \in NewPasswords :
           EditUser(s, old, new, p)

\* Any step of session s.
SessionStep(s) ==
    \/ \E u \in Names, p \in Passwords : Login(s, u, p)
    \/ Logout(s)
    \/ AdminFormStep(s)

-----------------------------------------------------------------------------
\* No Login step of session s with (u, p) does anything but this: log the
\* session in under u when the table holds (u, hash(p)), and otherwise leave
\* its flag and stored username alone.
C1_LoginStep(s, u, p) ==
    ~ENABLED (/\ Login(s, u, p)
              /\ ~(IF HasRecord(UsersNow, u, p)
                   THEN authenticated'[s] /\ username'[s] = u
                   ELSE ~authenticated'[s] /\ username'[s] = username[s]))

\* A logged-out session can log in with every pair the table holds.
C1_NoLockout(s) ==
    ~authenticated[s] =>
        \A u \in Names, p \in Passwords :
            HasRecord(UsersNow, u, p) =>
                ENABLED (Login(s, u, p) /\ authenticated'[s] /\ username'[s] = u)

\* C1: the session is a LoggedOut -> LoggedIn -> LoggedOut machine.  A login
\* submit logs the session in and stores the submitted username exactly when
\* the user table holds a record with that username and the hash of the
\* submitted password; a failed login changes neither the flag nor the stored
\* username; logout clears both.  A session becomes logged in only under a
\* username that has such a record, a logged-out session stores no username,
\* and whatever was tried before, a logged-out session can log in with any
\* pair the table holds.
C1_SessionStateMachine ==
    /\ [](\A s \in Sessions :
            /\ ~authenticated[s] => username[s] = None
            /\ \A u \in Names, p \in Passwords : C1_LoginStep(s, u, p)
            /\ C1_NoLockout(s))
    /\ [][\A s \in Sessions :
            /\ Logout(s) => ~authenticated'[s] /\ username'[s] = None
            /\ (~authenticated[s] /\ authenticated'[s]) =>
                   \E p \in Passwords : HasRecord(UsersNow, username'[s], p)
            /\ (authenticated[s] /\ authenticated'[s]) =>
                   username'[s] = username[s]]_vars

\* C1 witness: a session whose last login failed, while another is logged in
\* as a user that an admin added.
C1_Witness ==
    \E s, t \in Sessions :
        /\ msg[s] = LoginErr /\ ~authenticated[s]
        /\ authenticated[t] /\ username[t] = "Admin" /\ msg[t] = LoginOk

-----------------------------------------------------------------------------
-----------------------------------------------------------------------------
\* C3: authenticate(u, p, T) is true exactly when T holds a record whose
\* username is u and whose hash is hash(p); a right username with a wrong
\* password and a wrong username with a right password give false; a login
\* leaves users.csv as it was; and on the default table ("admin", "admin")
\* authenticates while ("admin", "wrong") does not.
C3_AuthenticateIffRecord ==
    /\ [](\A u \in Names, p \in Passwords :
            /\ authenticate(u, p, UsersNow) <=> HasRecord(UsersNow, u, p)
            /\ (HasUser(UsersNow, u) /\ ~HasRecord(UsersNow, u, p)) =>
                   ~authenticate(u, p, UsersNow)
            /\ ((\E v \in Names : HasRecord(UsersNow, v, p))
                    /\ ~HasRecord(UsersNow, u, p)) =>
                   ~authenticate(u, p, UsersNow))
    /\ [](/\ authenticate("admin", "admin", default_users)
          /\ ~authenticate("admin", "wrong", default_users))
    /\ [][\A s \in Sessions, u \in Names, p \in Passwords :
            Login(s, u, p) => users_file' = users_file]_vars

\* C3 witness: one session was refused and another let in on a table that holds the same
\* username under two different hashes.
C3_Witness ==
    \E s, t \in Sessions :
        /\ msg[s] = LoginErr
        /\ authenticated[t] /\ username[t] = "Admin"
        /\ HasRecord(UsersNow, "Admin", "admin")
        /\ HasRecord(UsersNow, "Admin", "x")

-----------------------------------------------------------------------------
\* C4: a successful add-record submit leaves revtee_data.csv holding the rows
\* it held before, unchanged and in order, followed by the new row.
C4_AppendOnly ==
    [][\A s \in Sessions, d \in Days, product \in ProductInputs \ {""},
          m \in NewMeasures :
            AddRecord(s, d, product, m) =>
                data_file' = Append(data_file,
                                    [Date            |-> Calendar[d],
                                     Produits_vendus |-> product,
                                     Ventes          |-> m.Ventes,
                                     Visiteurs       |-> m.Visiteurs,
                                     Conversions     |-> m.Conversions,
                                     Revenus         |-> m.Revenus])]_vars

-----------------------------------------------------------------------------
\* The "Tee" row of 2024-01-01 as loaded, and the indicators of that row
\* alone (the rate in hundredths of a percent).
C5_TeeRow ==
    [Date |-> 1, Produits_vendus |-> "Tee", Ventes |-> 5, Visiteurs |-> 20,
     Conversions |-> 2, Revenus |-> 500]

C5_TeeIndicators ==
    [total_sales |-> 5, total_visitors |-> 20, conversion_rate |-> 1000,
     total_revenue |-> 500]

\* C5: once a session has added a record, the table the next dashboard run
\* filters and aggregates holds that record; and when the record is the "Tee"
\* row of 2024-01-01 (5 sales, 20 visitors, 2 conversions, 500 revenue) and
\* no other row of the file matches the filter, the indicators over a date
\* range containing that day with "All" or "Tee" selected are 5, 20, 10.00 %
\* and 500.
C5_AddedRecordIsSeen ==
    \A s \in Sessions :
        msg[s] = AddDataOk =>
            LET stored == ReadDataCsv(data_file)
                added == stored[Len(stored)]
                data == load_data(data_cache, data_file)
            IN  /\ \E i \in 1..Len(data) : data[i] = added
                /\ \A start \in Days, end \in Days, label \in {"All", "Tee"} :
                       (/\ added = C5_TeeRow
                        /\ start <= 1 /\ 1 <= end
                        /\ \A i \in 1..(Len(stored) - 1) :
                               ~(/\ stored[i].Date # NaT
                                 /\ start <= stored[i].Date
                                 /\ stored[i].Date <= end)) =>
                           RenderKpis(ApplyFilters(data, start, end, {label}),
                                      {label})[label] = C5_TeeIndicators

-----------------------------------------------------------------------------
\* C6: a successful edit-user (new username and new password non-empty)
\* leaves a table of the same length in which every record that was named
\* old is named new, every record named new has the hash of the new
\* password, and every other record is as it was; so when old and new
\* differ, (new, pw) authenticates and old authenticates with no password.
C6_EditUserResult ==
    [][\A s \in Sessions, old \in UserOptions(UsersNow), new \in Names \ {""},
          pw \in NewPasswords \ {""} :
            EditUser(s, old, new, pw) =>
                LET T  == UsersNow
                    T2 == RenameAndRehash(T, old, new, pw)
                IN  /\ Len(T2) = Len(T)
                    /\ \A i \in 1..Len(T) :
                           /\ T[i].username = old => T2[i].username = new
                           /\ T2[i].username = new =>
                                  T2[i].password = hash_password(pw)
                           /\ T[i].username \notin {old, new} => T2[i] = T[i]
                    /\ old # new =>
                           /\ HasRecord(T2, new, pw)
                           /\ \A p \in Passwords : ~HasRecord(T2, old, p)]_vars

-----------------------------------------------------------------------------
\* C7: a successful add-user (username and password non-empty) leaves
\* users.csv holding its previous rows followed by the one row (u, hash(p)),
\* whether or not u was there already; on the next load (u, p) authenticates
\* and so does every pair that authenticated before.
C7_AddUserAppends ==
    [][\A s \in Sessions, u \in Names \ {""}, p \in NewPasswords \ {""} :
            AddUser(s, u, p) =>
                /\ users_file' = Append(users_file,
                                        [username |-> u,
                                         password |-> hash_password(p)])
                /\ HasRecord(load_users(users_file'), u, p)
                /\ \A v \in Names, q \in Passwords :
                       HasRecord(UsersNow, v, q) =>
                           HasRecord(load_users(users_file'), v, q)]_vars

-----------------------------------------------------------------------------
\* A step of session s that changes nothing but the message it shows.
C8_Rejected(s, error) ==
    /\ UNCHANGED <<users_file, data_file, data_cache, authenticated, username>>
    /\ msg'[s] = error

\* C8: in every state, a submit with an empty required field (add-user without
\* username or password, edit-user without new username or new password,
\* add-record without product) can only be a step that changes neither file,
\* nor the cached table, nor any session's login state and stored username,
\* and that shows the form's error;
\* the session that saw such an error is still the logged-in admin and its
\* next valid add-record is accepted.
C8_EmptyFieldRejected ==
    \A s \in Sessions :
        /\ \A u \in Names, p \in NewPasswords :
               (u = "" \/ p = "") =>
                   ~ENABLED (AddUser(s, u, p) /\ ~C8_Rejected(s, AddUserErr))
        /\ \A old \in UserOptions(UsersNow), new \in Names, p \in NewPasswords :
               (new = "" \/ p = "") =>
                   ~ENABLED (EditUser(s, old, new, p)
                                 /\ ~C8_Rejected(s, EditUserErr))
        /\ \A d \in Days, m \in NewMeasures :
               ~ENABLED (AddRecord(s, d, "", m) /\ ~C8_Rejected(s, AddDataErr))
        /\ msg[s] \in {AddUserErr, EditUserErr, AddDataErr} =>
               /\ authenticated[s] /\ username[s] = "admin"
               /\ \A d \in Days, m \in NewMeasures :
                      ENABLED (AddRecord(s, d, "Tee", m) /\ msg'[s] = AddDataOk)

\* C8 witness: the admin got the edit-user error after having added a user and a record.
C8_Witness ==
    \E s \in Sessions :
        /\ msg[s] = EditUserErr
        /\ Len(users_file) = 2
        /\ Len(data_file) = 2

-----------------------------------------------------------------------------
\* The rows a filter is to keep, selected one by one.
C9_Kept(r, start, end, selection) ==
    /\ r.Date # NaT
    /\ start <= r.Date
    /\ r.Date <= end
    /\ ("All" \in selection \/ r.Produits_vendus \in selection)

RECURSIVE C9_Subset(_, _, _, _)
C9_Subset(rows, start, end, selection) ==
    IF rows = << >> THEN << >>
    ELSE (IF C9_Kept(Head(rows), start, end, selection)
          THEN << Head(rows) >> ELSE << >>)
         \o C9_Subset(Tail(rows), start, end, selection)

\* C9: the filter returns, in order, exactly the rows whose date is present
\* and within [start, end], both ends included, and whose product is selected
\* unless "All" is; with "All" selected the other entries of the selection do
\* not matter; no row without a date is returned; and filtering the result
\* again returns it.
C9_FilterExact ==
    LET data == load_data(data_cache, data_file)
    IN  /\ \A start \in Days, end \in Days, selection \in ProductSelections :
               LET result == ApplyFilters(data, start, end, selection)
               IN  /\ result = C9_Subset(data, start, end, selection)
                   /\ "All" \in selection =>
                          result = ApplyFilters(data, start, end, {"All"})
                   /\ \A i \in 1..Len(result) : result[i].Date # NaT
                   /\ ApplyFilters(result, start, end, selection) = result
        /\ date_range # << >> =>
               filtered_data = C9_Subset(data, date_range[1], date_range[2],
                                         selected_products)

\* C9 witness: a filter run on a two-row file with an undated row, with a one-day range
\* and one product selected, that kept one row.
C9_Witness ==
    /\ date_range # << >>
    /\ date_range[1] = date_range[2]
    /\ selected_products = {"Tee"}
    /\ Len(filtered_data) = 1
    /\ Len(data_file) = 2
    /\ \E i \in 1..Len(data_file) : ParseDate(data_file[i].Date) = NaT

-----------------------------------------------------------------------------
\* C10 as the specification states it: whenever the admin forms are available
\* to a session, the user table holds exactly one record named "admin".
C10_ExactlyOneAdmin ==
    \A s \in Sessions :
        AdminAvailable(s) =>
            Cardinality({i \in 1..Len(UsersNow) :
                             UsersNow[i].username = "admin"}) = 1

\* C10, amended: the admin forms become available to a session only by a
\* login at which the user table holds a record named "admin" with the hash
\* of the submitted password, and they stay available to it until it logs
\* out, whatever add-user and edit-user then do to the table.
C10_AdminActivation ==
    [][\A s \in Sessions :
          /\ (~AdminAvailable(s) /\ AdminAvailable(s)') =>
                 /\ \E p \in Passwords : HasRecord(UsersNow, "admin", p)
                 /\ users_file' = users_file
          /\ (AdminAvailable(s) /\ ~AdminAvailable(s)') => Logout(s)]_vars

\* C10 witness: the admin forms are available to a session although the table
\* holds no record named "admin" any more.
C10_Witness ==
    \E s \in Sessions :
        /\ AdminAvailable(s)
        /\ ~HasUser(UsersNow, "admin")

=============================================================================
